---- MODULE Spec2Model ----
(***************************************************************************)
(* Health Tracking API (src/main.py, src/schemas.py).                      *)
(*                                                                         *)
(* The request handlers of main.py over a document store.  Every handler   *)
(* is one atomic action: the store after it, and the response it returns   *)
(* (or the exception that leaves it).                                      *)
(*                                                                         *)
(* Units.  Latitudes and longitudes are integers in 1e-5 degrees, distances*)
(* and radii integers in 1e-6 km (millimetres), times integers in hours.   *)
(* Optional fields hold None (the empty sequence) or Some(v) (<<v>>).      *)
(***************************************************************************)
EXTENDS Integers, Sequences, FiniteSets, TLC

VARIABLES
    store,      \* collection name -> sequence of stored documents, in insertion order
    clock,      \* the time datetime.utcnow() returns, in hours
    request,    \* the call handled last: its handler, arguments and environment
    response    \* what that call returned: a body, or the exception it raised

vars == <<store, clock, request, response>>

----------------------------------------------------------------------------
(* Bounds of the model. *)

MaxHospitals == 3       \* hospitals stored, in SpecNearby
MaxPrior == 0           \* reminders already stored when a reminder is generated, in SpecReminders
MaxMetrics == 2         \* health metrics stored, in SpecDashboard
MaxReports == 1         \* reports stored, in SpecDashboard
MaxDocs == 1            \* documents already stored when a create-type endpoint is called, in Spec
MaxClock == 1           \* the clock stops here
MaxTimesPerDay == 4     \* largest times_per_day requested
MaxDays == 2            \* largest days requested
MaxInterval == 2        \* largest interval_hours requested
MaxHours == 4           \* largest hours requested

----------------------------------------------------------------------------
(* Values. *)

None == <<>>
Some(v) == <<v>>

Collections ==
    {"doctor", "patient", "family", "admin", "appointment", "payment",
     "article", "emergency", "hospital", "healthmetric", "report", "reminder"}

PatientIds == {"p1", "p2"}

\* dict.get(key, default)
Get(d, k, default) == IF k \in DOMAIN d THEN d[k] ELSE default

----------------------------------------------------------------------------
(* The store adapter (database.py): create appends one document with a     *)
(* fresh id or raises and writes nothing; fetch returns the documents that *)
(* match an equality filter, in insertion order.                           *)

TotalDocs(s) ==
    Len(s["doctor"]) + Len(s["patient"]) + Len(s["family"]) + Len(s["admin"])
    + Len(s["appointment"]) + Len(s["payment"]) + Len(s["article"]) + Len(s["emergency"])
    + Len(s["hospital"]) + Len(s["healthmetric"]) + Len(s["report"]) + Len(s["reminder"])

create_document(s, coll, doc) ==
    [s EXCEPT ![coll] = Append(@, [id |-> TotalDocs(s) + 1] @@ doc)]

Matches(d, filter) == \A k \in DOMAIN filter : k \in DOMAIN d /\ d[k] = filter[k]

get_documents(s, coll, filter) == SelectSeq(s[coll], LAMBDA d : Matches(d, filter))

----------------------------------------------------------------------------
(* Responses. *)

Ok(body) == [status |-> "ok", error |-> "", body |-> body]
Raised(e) == [status |-> "error", error |-> e, body |-> <<>>]

Init ==
    /\ store = [c \in Collections |-> <<>>]
    /\ clock = 0
    /\ request = [op |-> "none"]
    /\ response = Ok(<<>>)

----------------------------------------------------------------------------
(* CRUD endpoints: validate-then-store and fetch.  A create either stores   *)
(* the document and returns its id, or the store raises and the exception  *)
(* leaves the handler.                                                     *)

Create(op, coll, doc, message, fail) ==
    /\ request' = [op |-> op, args |-> doc, fail |-> fail]
    /\ IF fail
       THEN /\ store' = store
            /\ response' = Raised("StoreError")
       ELSE /\ store' = create_document(store, coll, doc)
            /\ response' = Ok([id |-> TotalDocs(store) + 1, message |-> message])
    /\ UNCHANGED clock

List(op, coll, filter) ==
    /\ request' = [op |-> op, args |-> filter]
    /\ response' = Ok(get_documents(store, coll, filter))
    /\ UNCHANGED <<store, clock>>

\* {"patient_id": patient_id} if patient_id else {}
filter_dict(patient_id) ==
    IF patient_id # None /\ patient_id # Some("") THEN [patient_id |-> patient_id[1]] ELSE <<>>

create_doctor(doctor, fail) == Create("create_doctor", "doctor", doctor, "Doctor created", fail)
list_doctors == List("list_doctors", "doctor", <<>>)
create_patient(patient, fail) == Create("create_patient", "patient", patient, "Patient created", fail)
list_patients == List("list_patients", "patient", <<>>)
create_family(family, fail) == Create("create_family", "family", family, "Family created", fail)
list_families == List("list_families", "family", <<>>)
create_admin(admin, fail) == Create("create_admin", "admin", admin, "Admin created", fail)
list_admins == List("list_admins", "admin", <<>>)
create_appointment(appt, fail) == Create("create_appointment", "appointment", appt, "Appointment created", fail)
list_appointments == List("list_appointments", "appointment", <<>>)
create_payment(payment, fail) == Create("create_payment", "payment", payment, "Payment created", fail)
list_payments == List("list_payments", "payment", <<>>)
create_article(article, fail) == Create("create_article", "article", article, "Article created", fail)
list_articles == List("list_articles", "article", <<>>)
create_emergency(emer, fail) == Create("create_emergency", "emergency", emer, "Emergency contact created", fail)
list_emergencies == List("list_emergencies", "emergency", <<>>)
create_hospital(h, fail) == Create("create_hospital", "hospital", h, "Hospital created", fail)
list_hospitals == List("list_hospitals", "hospital", <<>>)
create_health_metric(metric, fail) == Create("create_health_metric", "healthmetric", metric, "Health metric recorded", fail)
list_health_metrics(patient_id) == List("list_health_metrics", "healthmetric", filter_dict(patient_id))
create_report(report, fail) == Create("create_report", "report", report, "Report uploaded", fail)
list_reports(patient_id) == List("list_reports", "report", filter_dict(patient_id))
create_reminder(rem, fail) == Create("create_reminder", "reminder", rem, "Reminder created", fail)
list_reminders(patient_id) == List("list_reminders", "reminder", filter_dict(patient_id))

----------------------------------------------------------------------------
(* POST /nearby-hospitals *)

\* Coordinates of the model, in 1e-5 degrees: 10.0, 10.01 and 10.01002.
HospitalLats == {1000000, 1001000, 1001002}
HospitalLngs == {1000000}
QueryLats == {1000000, 1001000}
QueryLngs == {1000000}
\* Radii in 1e-6 km: -1 km, 0 km, 1.113 km, 5 km.
Radii == {-1000000, 0, 1113000, 5000000}

\* haversine() with R = 6371.0, evaluated in double precision on the model's
\* coordinates and rounded up to the next 1e-6 km (for an integer r,
\* dist <= r is unchanged by rounding dist up):
\*   10.0 -> 10.01     1.1119492664455637 km
\*   10.0 -> 10.01002  1.1141731649785682 km
\*   10.01 -> 10.01002 0.002223898533004505 km
HaversineTable ==
    (<<1000000, 1000000, 1000000, 1000000>> :> 0)
 @@ (<<1000000, 1000000, 1001000, 1000000>> :> 1111950)
 @@ (<<1000000, 1000000, 1001002, 1000000>> :> 1114174)
 @@ (<<1001000, 1000000, 1000000, 1000000>> :> 1111950)
 @@ (<<1001000, 1000000, 1001000, 1000000>> :> 0)
 @@ (<<1001000, 1000000, 1001002, 1000000>> :> 2224)

haversine(lat1, lon1, lat2, lon2) == HaversineTable[<<lat1, lon1, lat2, lon2>>]

\* round(dist, 2): to the nearest 0.01 km (10000 units), a tie to the even one.
round2(dist) ==
    LET q == dist \div 10000
        r == dist % 10000
    IN IF r > 5000 \/ (r = 5000 /\ q % 2 = 1) THEN (q + 1) * 10000 ELSE q * 10000

\* Mutant: the radius excluded.
WithinRadiusStrict(dist, radius_km) == dist < radius_km

\* if dist <= req.radius_km
WithinRadius(dist, radius_km) == dist <= radius_km

\* results.sort(key=lambda x: x["distance_km"]): a stable sort.
SortedInsert(sorted, x) ==
    LET k == Cardinality({j \in 1..Len(sorted) : sorted[j].distance_km <= x.distance_km})
    IN SubSeq(sorted, 1, k) \o <<x>> \o SubSeq(sorted, k + 1, Len(sorted))

RECURSIVE SortByDistanceKm(_)
SortByDistanceKm(results) ==
    IF results = <<>> THEN <<>>
    ELSE SortedInsert(SortByDistanceKm(SubSeq(results, 1, Len(results) - 1)),
                      results[Len(results)])

\* for h in hospitals: ... results.append(h_copy)
RECURSIVE NearbyLoop(_, _)
NearbyLoop(hospitals, req) ==
    IF hospitals = <<>> THEN <<>>
    ELSE LET h == Head(hospitals)
             lat == Get(h, "location_lat", None)
             lng == Get(h, "location_lng", None)
             rest == NearbyLoop(Tail(hospitals), req)
         IN IF lat = None \/ lng = None THEN rest
            ELSE LET dist == haversine(req.lat, req.lng, lat[1], lng[1])
                 IN IF WithinRadius(dist, req.radius_km)
                    THEN <<[distance_km |-> round2(dist)] @@ h>> \o rest
                    ELSE rest

NearbyResults(s, req) == SortByDistanceKm(NearbyLoop(get_documents(s, "hospital", <<>>), req))

\* Mutant: distance_km set on the fetched hospital itself and saved with it.
nearby_hospitals_writeback(req) ==
    /\ request' = [op |-> "nearby_hospitals", args |-> req]
    /\ response' = Ok(NearbyResults(store, req))
    /\ store' = [store EXCEPT !["hospital"] =
                    [i \in DOMAIN @ |->
                        IF \E j \in 1..Len(NearbyResults(store, req)) :
                              NearbyResults(store, req)[j].id = @[i].id
                        THEN [distance_km |-> 0] @@ @[i]
                        ELSE @[i]]]
    /\ UNCHANGED clock

nearby_hospitals(req) ==
    /\ request' = [op |-> "nearby_hospitals", args |-> req]
    /\ response' = Ok(NearbyResults(store, req))
    /\ UNCHANGED <<store, clock>>

HospitalInputs ==
    [location_lat : {None} \cup {Some(x) : x \in HospitalLats},
     location_lng : {None} \cup {Some(x) : x \in HospitalLngs}]

NearbyRequests == [lat : QueryLats, lng : QueryLngs, radius_km : Radii]

NextNearby ==
    \/ \E h \in HospitalInputs, fail \in BOOLEAN :
          /\ Len(store["hospital"]) < MaxHospitals
          /\ create_hospital(h, fail)
    \/ \E req \in NearbyRequests : nearby_hospitals(req)
    \/ list_hospitals

SpecNearby == Init /\ [][NextNearby]_vars

\* The distance of a stored or returned hospital h to the query point of req.
DistanceTo(req, h) == haversine(req.lat, req.lng, h.location_lat[1], h.location_lng[1])

HasCoordinates(h) == h.location_lat # None /\ h.location_lng # None

\* The position of the document with this id in the fetched hospital sequence.
FetchedIndex(id) == CHOOSE i \in 1..Len(store["hospital"]) : store["hospital"][i].id = id

Without(r, key) == [k \in DOMAIN r \ {key} |-> r[k]]

\* C1: nearby_hospitals returns exactly the stored hospitals that have both
\* coordinates and whose distance to the query point is <= radius_km, each once
\* and with its stored fields; a hospital missing a coordinate is left out and
\* the call does not fail.
C1_NearbyExactlyWithinRadius ==
    request.op = "nearby_hospitals" =>
        LET req == request.args
            stored == store["hospital"]
            res == response.body
            Want == {i \in 1..Len(stored) :
                        /\ HasCoordinates(stored[i])
                        /\ DistanceTo(req, stored[i]) <= req.radius_km}
        IN /\ response.status = "ok"
           /\ Len(res) = Cardinality(Want)
           /\ {Without(res[j], "distance_km") : j \in 1..Len(res)} = {stored[i] : i \in Want}

\* C1 witness: a search that returned a hospital at exactly the radius, left out a
\* hospital beyond it and left out a hospital without a coordinate.
C1_Witness ==
    /\ request.op = "nearby_hospitals"
    /\ response.status = "ok"
    /\ \E j \in 1..Len(response.body) :
          DistanceTo(request.args, response.body[j]) = request.args.radius_km
    /\ \E i \in 1..Len(store["hospital"]) : ~HasCoordinates(store["hospital"][i])
    /\ \E i \in 1..Len(store["hospital"]) :
          /\ HasCoordinates(store["hospital"][i])
          /\ DistanceTo(request.args, store["hospital"][i]) > request.args.radius_km

\* C2: the returned list is ascending by each hospital's computed distance to the
\* query point, and hospitals at equal distance keep their fetched order.
C2_OrderedByComputedDistance ==
    request.op = "nearby_hospitals" =>
        LET req == request.args
            res == response.body
        IN \A i, j \in 1..Len(res) :
              i < j =>
                 /\ DistanceTo(req, res[i]) <= DistanceTo(req, res[j])
                 /\ DistanceTo(req, res[i]) = DistanceTo(req, res[j])
                       => FetchedIndex(res[i].id) < FetchedIndex(res[j].id)

----------------------------------------------------------------------------
(* The AI-nurse reminder generators.  failAt = k > 0 means the store raises *)
(* at the call's k-th create_document, failAt = 0 that every write         *)
(* succeeds.                                                               *)

\* Time passes.
Tick ==
    /\ clock < MaxClock
    /\ clock' = clock + 1
    /\ UNCHANGED <<store, request, response>>

\* datetime.utcnow()
utcnow == clock

Reminder(patient_id, reminder_type, message, due_at, appointment_id) ==
    [patient_id |-> patient_id, reminder_type |-> reminder_type, message |-> message,
     due_at |-> due_at, dosage |-> None, appointment_id |-> appointment_id]

\* range(start, stop, step) for step # 0, as a sequence.
PyRange(start, stop, step) ==
    LET n == IF step > 0
             THEN (IF stop > start THEN (stop - start + step - 1) \div step ELSE 0)
             ELSE (IF stop < start THEN (start - stop - step - 1) \div (0 - step) ELSE 0)
    IN [i \in 1..n |-> start + (i - 1) * step]

\* Mutant: doses 12 hours apart.
MedicationDueEvery12h(now, day, t) == now + 24 * day + (9 + t * 12)

\* now + timedelta(days=day, hours=9 + t*8)
MedicationDue(now, day, t) == now + 24 * day + (9 + t * 8)

\* Mutant: the loops nested the other way round, doses outside and days inside.
MedicationPlanDoseMajor(patient_id, times_per_day, days, now) ==
    LET ds == PyRange(0, days, 1)
        ts == PyRange(0, times_per_day, 1)
    IN [i \in 1..(Len(ds) * Len(ts)) |->
           Reminder(patient_id, "Medication", "Time to take your medication",
                    MedicationDue(now, ds[((i - 1) % Len(ds)) + 1], ts[((i - 1) \div Len(ds)) + 1]),
                    None)]

\* The reminders of the two nested loops, in the order they are created.
MedicationPlan(patient_id, times_per_day, days, now) ==
    LET ds == PyRange(0, days, 1)
        ts == PyRange(0, times_per_day, 1)
    IN [i \in 1..(Len(ds) * Len(ts)) |->
           Reminder(patient_id, "Medication", "Time to take your medication",
                    MedicationDue(now, ds[((i - 1) \div Len(ts)) + 1], ts[((i - 1) % Len(ts)) + 1]),
                    None)]

\* Mutant: the window's end included, range(0, hours + 1, interval_hours).
HydrationPlanInclusive(patient_id, interval_hours, hours, now) ==
    LET hs == PyRange(0, hours + 1, interval_hours)
    IN [i \in 1..Len(hs) |-> Reminder(patient_id, "Hydration", "Drink water", now + hs[i], None)]

\* for h in range(0, hours, interval_hours): due = now + timedelta(hours=h)
HydrationPlan(patient_id, interval_hours, hours, now) ==
    LET hs == PyRange(0, hours, interval_hours)
    IN [i \in 1..Len(hs) |-> Reminder(patient_id, "Hydration", "Drink water", now + hs[i], None)]

\* Mutant: a failed call undoes the writes it made.
PersistedRollback(docs, failAt) == IF failAt = 0 THEN docs ELSE <<>>

\* The documents of a call's loop that reach the store: all of them, or those
\* before the write that raised (nothing catches the exception, nothing is undone).
Persisted(docs, failAt) == IF failAt = 0 THEN docs ELSE SubSeq(docs, 1, failAt - 1)

RECURSIVE CreateAll(_, _, _)
CreateAll(s, coll, docs) ==
    IF docs = <<>> THEN s
    ELSE CreateAll(create_document(s, coll, Head(docs)), coll, Tail(docs))

\* What the loop of a generator leaves and returns.
RunPlan(op, args, plan, now, failAt) ==
    /\ request' = [op |-> op, args |-> args, now |-> now, failAt |-> failAt,
                   before |-> store["reminder"]]
    /\ store' = CreateAll(store, "reminder", Persisted(plan, failAt))
    /\ response' = IF failAt = 0 THEN Ok([created |-> Len(plan)]) ELSE Raised("StoreError")
    /\ UNCHANGED clock

generate_medication_reminders(patient_id, times_per_day, days) ==
    LET now == utcnow
        plan == MedicationPlan(patient_id, times_per_day, days, now)
    IN \E failAt \in 0..Len(plan) :
          RunPlan("generate_medication_reminders",
                  [patient_id |-> patient_id, times_per_day |-> times_per_day, days |-> days],
                  plan, now, failAt)

schedule_appointment_reminder(appointment_id, appointment_time, patient_id, fail) ==
    LET due == appointment_time - 24
        rem == Reminder(patient_id, "Appointment", "Appointment tomorrow", due, Some(appointment_id))
    IN /\ request' = [op |-> "schedule_appointment_reminder",
                      args |-> [appointment_id |-> appointment_id,
                                appointment_time |-> appointment_time,
                                patient_id |-> patient_id],
                      fail |-> fail]
       /\ IF fail
          THEN /\ store' = store
               /\ response' = Raised("StoreError")
          ELSE /\ store' = create_document(store, "reminder", rem)
               /\ response' = Ok([id |-> TotalDocs(store) + 1, message |-> "Reminder scheduled"])
       /\ UNCHANGED clock

hydration_reminders(patient_id, interval_hours, hours) ==
    LET now == utcnow
        args == [patient_id |-> patient_id, interval_hours |-> interval_hours, hours |-> hours]
    IN IF interval_hours = 0
       THEN \* range() arg 3 must not be zero
            /\ request' = [op |-> "hydration_reminders", args |-> args, now |-> now,
                           failAt |-> 0, before |-> store["reminder"]]
            /\ store' = store
            /\ response' = Raised("ValueError")
            /\ UNCHANGED clock
       ELSE LET plan == HydrationPlan(patient_id, interval_hours, hours, now)
            IN \E failAt \in 0..Len(plan) :
                  RunPlan("hydration_reminders", args, plan, now, failAt)

AppointmentIds == {"a1"}
AppointmentTimes == {10, 30}
OptionalPatientIds == {None} \cup {Some(p) : p \in PatientIds}

NextReminders ==
    \/ \E p \in PatientIds, tpd \in -1..MaxTimesPerDay, days \in -1..MaxDays :
          /\ Len(store["reminder"]) <= MaxPrior
          /\ generate_medication_reminders(p, tpd, days)
    \/ \E p \in PatientIds, interval \in -1..MaxInterval, hours \in -1..MaxHours :
          /\ Len(store["reminder"]) <= MaxPrior
          /\ hydration_reminders(p, interval, hours)
    \/ \E p \in OptionalPatientIds : list_reminders(p)
    \/ Tick

SpecReminders == Init /\ [][NextReminders]_vars

\* The reminders the last call added to the collection.
Added == SubSeq(store["reminder"], Len(request.before) + 1, Len(store["reminder"]))

NewReminder(patient_id, reminder_type, due_at, r) ==
    /\ r.patient_id = patient_id
    /\ r.reminder_type = reminder_type
    /\ r.due_at = due_at

\* C3: hydration_reminders with interval_hours <= 0 fails with a validation
\* error: no success response, and no reminder persisted.
C3_HydrationRejectsNonPositiveInterval ==
    (request.op = "hydration_reminders" /\ request.args.interval_hours <= 0) =>
        /\ response.status = "error"
        /\ response.error = "ValidationError"
        /\ store["reminder"] = request.before

C5_HydrationSchedule ==
    (request.op = "hydration_reminders" /\ request.args.interval_hours > 0 /\ request.failAt = 0) =>
        LET a == request.args
            Offsets == {h \in 0..(a.hours - 1) : h % a.interval_hours = 0}
        IN /\ response = Ok([created |-> Cardinality(Offsets)])
           /\ Cardinality(Offsets) =
                 (IF a.hours <= 0 THEN 0
                  ELSE (a.hours + a.interval_hours - 1) \div a.interval_hours)
           /\ Len(store["reminder"]) = Len(request.before) + Cardinality(Offsets)
           /\ \A h \in Offsets :
                 NewReminder(a.patient_id, "Hydration", request.now + h,
                             Added[(h \div a.interval_hours) + 1])
           /\ \A i \in 1..Len(Added) : Added[i].due_at # request.now + a.hours

\* C5 witness: a successful call whose window is a multiple of the interval, with
\* more than one reminder.
C5_Witness ==
    /\ request.op = "hydration_reminders"
    /\ request.failAt = 0
    /\ request.args.interval_hours > 1
    /\ request.args.hours > request.args.interval_hours
    /\ request.args.hours % request.args.interval_hours = 0
    /\ response.status = "ok"
    /\ Len(Added) = request.args.hours \div request.args.interval_hours

\* C7: when the store raises at the k-th write of a medication or hydration call,
\* the call ends with that error and no created count; the k-1 reminders it wrote
\* before stay in the collection behind what was there, and nothing else is written.
C7_PartialWritesRemain ==
    (request.op \in {"generate_medication_reminders", "hydration_reminders"} /\ request.failAt > 0) =>
        LET rtype == IF request.op = "hydration_reminders" THEN "Hydration" ELSE "Medication"
        IN /\ response = Raised("StoreError")
           /\ Len(store["reminder"]) = Len(request.before) + request.failAt - 1
           /\ SubSeq(store["reminder"], 1, Len(request.before)) = request.before
           /\ \A i \in 1..Len(Added) :
                 /\ Added[i].patient_id = request.args.patient_id
                 /\ Added[i].reminder_type = rtype

\* C7 witness: a call that failed at its third write or later, two or more
\* reminders of it stored.
C7_Witness ==
    /\ request.op \in {"generate_medication_reminders", "hydration_reminders"}
    /\ request.failAt >= 3
    /\ response.status = "error"
    /\ Len(Added) = request.failAt - 1

\* C10: in one generate_medication_reminders call with times_per_day <= 3 the
\* reminders created are due at pairwise distinct times, none earlier than 9
\* hours after now; a successful call with times_per_day >= 4 and days >= 2
\* creates two reminders due at the same time, dose 3 of a day and dose 0 of
\* the next.
C10_MedicationDueDistinct ==
    request.op = "generate_medication_reminders" =>
        LET a == request.args
        IN /\ a.times_per_day <= 3 =>
                 /\ \A i, j \in 1..Len(Added) : i # j => Added[i].due_at # Added[j].due_at
                 /\ \A i \in 1..Len(Added) : Added[i].due_at >= request.now + 9
           /\ (a.times_per_day >= 4 /\ a.days >= 2 /\ request.failAt = 0) =>
                 Added[4].due_at = Added[a.times_per_day + 1].due_at

\* C10 witness: a successful call for two or more days of three doses.
C10_Witness ==
    /\ request.op = "generate_medication_reminders"
    /\ request.failAt = 0
    /\ request.args.times_per_day = 3
    /\ request.args.days >= 2
    /\ Len(Added) = 3 * request.args.days

----------------------------------------------------------------------------
(* GET /dashboard/summary *)

\* Mutant: the metric with the greatest timestamp, the earliest stored of them.
LatestByTimestamp(metrics) ==
    IF metrics # <<>>
    THEN metrics[CHOOSE i \in 1..Len(metrics) :
                    /\ \A j \in 1..Len(metrics) : metrics[j].timestamp <= metrics[i].timestamp
                    /\ \A j \in 1..(i - 1) : metrics[j].timestamp < metrics[i].timestamp]
    ELSE <<>>

\* latest = metrics[-1] if metrics else {}
Latest(metrics) == IF metrics # <<>> THEN metrics[Len(metrics)] ELSE <<>>

\* Mutant: every report fetched, whoever the patient.
PatientReportsUnfiltered(s, patient_id) == get_documents(s, "report", <<>>)

\* reports = get_documents("report", {"patient_id": patient_id})
PatientReports(s, patient_id) == get_documents(s, "report", [patient_id |-> patient_id])

Summary(s, patient_id) ==
    LET metrics == get_documents(s, "healthmetric", [patient_id |-> patient_id])
        reports == PatientReports(s, patient_id)
        latest == Latest(metrics)
    IN [disease |-> Get(latest, "chronic_disease", <<>>),
        medications |-> Get(latest, "current_medication", <<>>),
        reports_count |-> Len(reports),
        calendar |-> <<>>,
        health |-> [bp |-> <<Get(latest, "blood_pressure_systolic", None),
                             Get(latest, "blood_pressure_diastolic", None)>>,
                    oxygen |-> Get(latest, "blood_oxygen_level", None),
                    wbc |-> Get(latest, "wbc_count", None),
                    platelet |-> Get(latest, "platelet_count", None),
                    sugar |-> Get(latest, "sugar_level", None)],
        vitamin_deficiencies |-> Get(latest, "vitamin_deficiencies", <<>>)]

dashboard_summary(patient_id) ==
    /\ request' = [op |-> "dashboard_summary", args |-> [patient_id |-> patient_id]]
    /\ response' = Ok(Summary(store, patient_id))
    /\ UNCHANGED <<store, clock>>

\* HealthMetric documents: two sets of readings, one complete and one partial.
MetricTimestamps == {1, 2}
MetricReadings ==
    {[blood_pressure_systolic |-> Some(120), blood_pressure_diastolic |-> Some(80),
      blood_oxygen_level |-> Some(98), wbc_count |-> Some(7), platelet_count |-> Some(250),
      sugar_level |-> Some(90), vitamin_deficiencies |-> <<"D">>],
     [blood_pressure_systolic |-> Some(140), blood_pressure_diastolic |-> None,
      blood_oxygen_level |-> Some(95), wbc_count |-> None, platelet_count |-> None,
      sugar_level |-> None, vitamin_deficiencies |-> <<>>]}

MetricInputs ==
    {[patient_id |-> p, timestamp |-> ts] @@ r :
        p \in PatientIds, ts \in MetricTimestamps, r \in MetricReadings}

ReportInputs ==
    {[patient_id |-> p, title |-> "report", report_date |-> 1, file_url |-> None, notes |-> None] :
        p \in PatientIds}

NextDashboard ==
    \/ \E metric \in MetricInputs, fail \in BOOLEAN :
          /\ Len(store["healthmetric"]) < MaxMetrics
          /\ create_health_metric(metric, fail)
    \/ \E report \in ReportInputs, fail \in BOOLEAN :
          /\ Len(store["report"]) < MaxReports
          /\ create_report(report, fail)
    \/ \E p \in PatientIds : dashboard_summary(p)
    \/ \E p \in OptionalPatientIds : list_health_metrics(p)
    \/ \E p \in OptionalPatientIds : list_reports(p)

SpecDashboard == Init /\ [][NextDashboard]_vars

\* The positions of a patient's documents in a collection.
Of(coll, patient_id) == {i \in 1..Len(store[coll]) : store[coll][i].patient_id = patient_id}

NullHealth ==
    [bp |-> <<None, None>>, oxygen |-> None, wbc |-> None, platelet |-> None, sugar |-> None]

\* C6 as stated: for a patient with no health metric, dashboard_summary returns
\* without error a summary with an all-null health block, empty disease,
\* medications and vitamin_deficiencies lists, and reports_count = 0.
C6_NoMetricsAllNullZeroReports ==
    (request.op = "dashboard_summary" /\ Of("healthmetric", request.args.patient_id) = {}) =>
        /\ response.status = "ok"
        /\ response.body.health = NullHealth
        /\ response.body.disease = <<>>
        /\ response.body.medications = <<>>
        /\ response.body.vitamin_deficiencies = <<>>
        /\ response.body.reports_count = 0

\* C6 amended: for a patient with no health metric, dashboard_summary returns
\* without error a summary with an all-null health block, empty disease,
\* medications and vitamin_deficiencies lists, and reports_count equal to the
\* number of stored reports of that patient (0 when there is none).
C6_NoMetricsAllNull ==
    (request.op = "dashboard_summary" /\ Of("healthmetric", request.args.patient_id) = {}) =>
        /\ response.status = "ok"
        /\ response.body.health = NullHealth
        /\ response.body.disease = <<>>
        /\ response.body.medications = <<>>
        /\ response.body.vitamin_deficiencies = <<>>
        /\ response.body.reports_count = Cardinality(Of("report", request.args.patient_id))

\* C6 witness: a summary for a patient without metrics who has a report, while
\* another patient has a metric.
C6_Witness ==
    /\ request.op = "dashboard_summary"
    /\ Of("healthmetric", request.args.patient_id) = {}
    /\ Of("report", request.args.patient_id) # {}
    /\ store["healthmetric"] # <<>>
    /\ response.body.health = NullHealth
    /\ response.body.reports_count > 0

\* C8: dashboard_summary reports the readings of the patient's metric stored
\* last, whatever the timestamps, and no other patient's metric.
C8_LatestIsLastInserted ==
    (request.op = "dashboard_summary" /\ Of("healthmetric", request.args.patient_id) # {}) =>
        LET own == Of("healthmetric", request.args.patient_id)
            m == store["healthmetric"][CHOOSE i \in own : \A j \in own : j <= i]
        IN /\ response.status = "ok"
           /\ response.body.health =
                 [bp |-> <<m.blood_pressure_systolic, m.blood_pressure_diastolic>>,
                  oxygen |-> m.blood_oxygen_level, wbc |-> m.wbc_count,
                  platelet |-> m.platelet_count, sugar |-> m.sugar_level]
           /\ response.body.vitamin_deficiencies = m.vitamin_deficiencies

\* C8 witness: a summary for a patient whose earlier metric has the greater
\* timestamp and other readings than the last one.
C8_Witness ==
    /\ request.op = "dashboard_summary"
    /\ \E i, j \in Of("healthmetric", request.args.patient_id) :
          /\ i < j
          /\ \A k \in Of("healthmetric", request.args.patient_id) : k <= j
          /\ store["healthmetric"][i].timestamp > store["healthmetric"][j].timestamp
          /\ store["healthmetric"][i].blood_pressure_systolic
                # store["healthmetric"][j].blood_pressure_systolic
          /\ response.body.health.bp[1] = store["healthmetric"][j].blood_pressure_systolic

----------------------------------------------------------------------------
(* Every endpoint, each on a few inputs. *)

DoctorInputs ==
    {[name |-> "d", specialization |-> "s", qualification |-> "q", current_hospital |-> "h",
      years_of_experience |-> 5, location |-> "l", profile_photo |-> None]}
PatientInputs == {[patient_id |-> "p1", full_name |-> "n", gender |-> "Other"]}
FamilyInputs == {[family_id |-> "f", contact_number |-> "1", address |-> "a"]}
AdminInputs == {[admin_id |-> "ad", full_name |-> "n", role |-> "Staff"]}
AppointmentInputs ==
    {[patient_id |-> "p1", doctor_id |-> "d", appointment_time |-> 30, status |-> "Scheduled",
      notes |-> None]}
PaymentInputs ==
    {[appointment_id |-> None, patient_id |-> "p1", amount |-> 10, currency |-> "USD",
      status |-> "Pending", method |-> None]}
ArticleInputs == {[title |-> "t", slug |-> "s", excerpt |-> None, body |-> "b", tags |-> <<>>]}
EmergencyInputs == {[area |-> "Police", number |-> "100", description |-> None]}
ReminderInputs == {Reminder("p2", "Call", "Call the clinic", 5, None)}
FewHospitalInputs ==
    {h \in HospitalInputs : h.location_lat \in {None, Some(1000000)} /\ h.location_lng # None}
FewMetricInputs == {m \in MetricInputs : m.patient_id = "p1" /\ m.timestamp = 1}
FewNearbyRequests == {req \in NearbyRequests : req.lat = 1000000 /\ req.radius_km \in {0, 5000000}}
FewPatientIds == {None, Some("p1")}

CreateNext ==
    \/ \E doctor \in DoctorInputs, fail \in BOOLEAN : create_doctor(doctor, fail)
    \/ \E patient \in PatientInputs, fail \in BOOLEAN : create_patient(patient, fail)
    \/ \E family \in FamilyInputs, fail \in BOOLEAN : create_family(family, fail)
    \/ \E admin \in AdminInputs, fail \in BOOLEAN : create_admin(admin, fail)
    \/ \E appt \in AppointmentInputs, fail \in BOOLEAN : create_appointment(appt, fail)
    \/ \E payment \in PaymentInputs, fail \in BOOLEAN : create_payment(payment, fail)
    \/ \E article \in ArticleInputs, fail \in BOOLEAN : create_article(article, fail)
    \/ \E emer \in EmergencyInputs, fail \in BOOLEAN : create_emergency(emer, fail)
    \/ \E h \in FewHospitalInputs, fail \in BOOLEAN : create_hospital(h, fail)
    \/ \E metric \in FewMetricInputs, fail \in BOOLEAN : create_health_metric(metric, fail)
    \/ \E report \in ReportInputs, fail \in BOOLEAN : create_report(report, fail)
    \/ \E rem \in ReminderInputs, fail \in BOOLEAN : create_reminder(rem, fail)
    \/ \E days \in {0, 1} : generate_medication_reminders("p1", 2, days)
    \/ \E fail \in BOOLEAN : schedule_appointment_reminder("a1", 30, "p1", fail)
    \/ \E hours \in {0, 3} : hydration_reminders("p1", 2, hours)

ReadNext ==
    \/ list_doctors
    \/ list_patients
    \/ list_families
    \/ list_admins
    \/ list_appointments
    \/ list_payments
    \/ list_articles
    \/ list_emergencies
    \/ list_hospitals
    \/ \E p \in FewPatientIds : list_health_metrics(p)
    \/ \E p \in FewPatientIds : list_reports(p)
    \/ \E p \in FewPatientIds : list_reminders(p)
    \/ \E req \in FewNearbyRequests : nearby_hospitals(req)
    \/ \E p \in PatientIds : dashboard_summary(p)

Next ==
    \/ TotalDocs(store) <= MaxDocs /\ CreateNext
    \/ ReadNext

Spec == Init /\ [][Next]_vars

ReadOps ==
    {"list_doctors", "list_patients", "list_families", "list_admins", "list_appointments",
     "list_payments", "list_articles", "list_emergencies", "list_hospitals",
     "list_health_metrics", "list_reports", "list_reminders", "nearby_hospitals",
     "dashboard_summary"}

Ids(s) == UNION {{s[c][i].id : i \in 1..Len(s[c])} : c \in Collections}

\* C9: every collection is append-only.  A step of any endpoint keeps each stored
\* record as and where it is, a create-type step adds only records with ids not
\* stored before, a read endpoint (a list, nearby_hospitals, dashboard_summary)
\* leaves every collection as it was, and no stored hospital gets a distance_km.
C9_AppendOnly ==
    [][/\ \A c \in Collections :
             /\ Len(store[c]) <= Len(store'[c])
             /\ SubSeq(store'[c], 1, Len(store[c])) = store[c]
       /\ Cardinality(Ids(store')) = TotalDocs(store')
       /\ request'.op \in ReadOps => store' = store
       /\ \A i \in 1..Len(store'["hospital"]) :
             "distance_km" \notin DOMAIN store'["hospital"][i]]_vars

\* C9 witness: a search that returned a hospital with its distance_km, the stored
\* hospital without it, after two create-type calls.
C9_Witness ==
    /\ request.op = "nearby_hospitals"
    /\ response.body # <<>>
    /\ "distance_km" \in DOMAIN response.body[1]
    /\ \A i \in 1..Len(store["hospital"]) : "distance_km" \notin DOMAIN store["hospital"][i]
    /\ TotalDocs(store) >= 2

====
